---- MODULE Spec2Model ----
(***************************************************************************)
(* Model of oneutil.etl: the date-token extraction of util.py and          *)
(* databento.py, and the list / filter / fetch / decode / concatenate      *)
(* pipeline read_databento_from_s3 of databento.py.                        *)
(*                                                                         *)
(* A string is a sequence of one-character strings.  A date is the tuple   *)
(* <<year, month, day>>.  The result of a call is a record                 *)
(* [kind, val, exc]: kind "date" with val the date, kind "none" for the    *)
(* Python value None, kind "raise" with exc the exception type.            *)
(***************************************************************************)
EXTENDS Integers, Sequences, FiniteSets, TLC

VARIABLES pc, key, format, outcome,
          file_list, folder, sd, ed,
          files_in_folder, files_to_read, body, dfs_to_concat,
          combined_df, err, calls

vars == <<pc, key, format, outcome, file_list, folder, sd, ed,
          files_in_folder, files_to_read, body, dfs_to_concat,
          combined_df, err, calls>>

extractVars == <<key, format, outcome>>

inputVars == <<file_list, folder, sd, ed>>

----------------------------------------------------------------------------
(* Bounds of the model. *)

\* longest key of the extraction calls, in atoms of KeyAtoms
MaxParts == 3

\* most objects in the bucket
MaxFiles == 3

\* most rows of one decoded table
MaxRows == 2

----------------------------------------------------------------------------
(* Results of a call. *)

NoDate == <<>>

ReturnDate(d) == [kind |-> "date", val |-> d, exc |-> ""]

ReturnNone == [kind |-> "none", val |-> NoDate, exc |-> ""]

Raise(e) == [kind |-> "raise", val |-> NoDate, exc |-> e]

NotCalled == [kind |-> "pending", val |-> NoDate, exc |-> ""]

----------------------------------------------------------------------------
(* re.search and datetime.strptime, as util.py and databento.py use them. *)

Digits == {"0", "1", "2", "3", "4", "5", "6", "7", "8", "9"}

DigitVal(c) ==
    CASE c = "0" -> 0 [] c = "1" -> 1 [] c = "2" -> 2 [] c = "3" -> 3
      [] c = "4" -> 4 [] c = "5" -> 5 [] c = "6" -> 6 [] c = "7" -> 7
      [] c = "8" -> 8 [] c = "9" -> 9

\* a pattern is a sequence of items: "\\d" for one digit, else a literal
DefaultPattern == <<"\\d", "\\d", "\\d", "\\d", "\\d", "\\d", "\\d", "\\d">>

HyphenPattern ==
    <<"\\d", "\\d", "\\d", "\\d", "-", "\\d", "\\d", "-", "\\d", "\\d">>

UnderscorePattern ==
    <<"\\d", "\\d", "\\d", "\\d", "_", "\\d", "\\d", "_", "\\d", "\\d">>

\* a format is a sequence of directives and literals
DefaultFormat == <<"%Y", "%m", "%d">>

HyphenFormat == <<"%Y", "-", "%m", "-", "%d">>

UnderscoreFormat == <<"%Y", "_", "%m", "_", "%d">>

ItemMatches(item, c) == IF item = "\\d" THEN c \in Digits ELSE c = item

\* the pattern matches the substring of s that starts at position i
MatchesAt(pat, s, i) ==
    /\ i >= 1
    /\ i + Len(pat) - 1 <= Len(s)
    /\ \A j \in 1..Len(pat) : ItemMatches(pat[j], s[i + j - 1])

MinOf(S) == CHOOSE x \in S : \A y \in S : x <= y

MaxOf(S) == CHOOSE x \in S : \A y \in S : x >= y

re_search_last(pat, s) ==
    LET starts == {i \in 1..Len(s) : MatchesAt(pat, s, i)}
    IN  IF starts = {} THEN 0 ELSE MaxOf(starts)

\* re.search: the start of the leftmost match, 0 when there is none
re_search(pat, s) ==
    LET starts == {i \in 1..Len(s) : MatchesAt(pat, s, i)}
    IN  IF starts = {} THEN 0 ELSE MinOf(starts)

\* match.group(): the matched text
group(pat, s, i) == SubSeq(s, i, i + Len(pat) - 1)

RECURSIVE NumVal(_)
NumVal(ds) ==
    IF ds = <<>> THEN 0
    ELSE 10 * NumVal(SubSeq(ds, 1, Len(ds) - 1)) + DigitVal(ds[Len(ds)])

Width(item) == IF item = "%Y" THEN 4 ELSE IF item \in {"%m", "%d"} THEN 2 ELSE 1

RECURSIVE FieldStart(_, _)
\* position in the text of the k-th item of the format
FieldStart(fmt, k) ==
    IF k = 1 THEN 1 ELSE FieldStart(fmt, k - 1) + Width(fmt[k - 1])

Field(fmt, text, directive) ==
    LET k == CHOOSE n \in 1..Len(fmt) : fmt[n] = directive
        p == FieldStart(fmt, k)
    IN  NumVal(SubSeq(text, p, p + Width(directive) - 1))

IsLeap(y) == (y % 4 = 0 /\ y % 100 # 0) \/ y % 400 = 0

DaysInMonth(y, m) ==
    IF m \in {4, 6, 9, 11} THEN 30
    ELSE IF m = 2 THEN (IF IsLeap(y) THEN 29 ELSE 28)
    ELSE 31

\* a date of datetime: the year is at least 1 (MINYEAR)
IsValidDate(y, m, d) ==
    /\ y >= 1
    /\ m >= 1 /\ m <= 12
    /\ d >= 1 /\ d <= DaysInMonth(y, m)

\* the day and the month read in each other's place
strptime_date_day_first(text, fmt) ==
    LET y == Field(fmt, text, "%Y")
        m == Field(fmt, text, "%d")
        d == Field(fmt, text, "%m")
    IN  IF IsValidDate(y, m, d) THEN ReturnDate(<<y, m, d>>)
        ELSE Raise("ValueError")

\* datetime.strptime(text, fmt).date() on a text the pattern of fmt matched:
\* the fields have their full widths; ValueError unless they form a date
strptime_date(text, fmt) ==
    LET y == Field(fmt, text, "%Y")
        m == Field(fmt, text, "%m")
        d == Field(fmt, text, "%d")
    IN  IF IsValidDate(y, m, d) THEN ReturnDate(<<y, m, d>>)
        ELSE Raise("ValueError")

----------------------------------------------------------------------------
(* util.py *)

extract_date_default(filename) ==
    LET match == re_search(DefaultPattern, filename)
    IN  IF match # 0
        THEN strptime_date(group(DefaultPattern, filename, match), DefaultFormat)
        ELSE ReturnNone

extract_date_hyphen(filename) ==
    LET match == re_search(HyphenPattern, filename)
    IN  IF match # 0
        THEN strptime_date(group(HyphenPattern, filename, match), HyphenFormat)
        ELSE ReturnNone

extract_date_underscore(filename) ==
    LET match == re_search(UnderscorePattern, filename)
    IN  IF match # 0
        THEN strptime_date(group(UnderscorePattern, filename, match),
                           UnderscoreFormat)
        ELSE ReturnNone

\* no branch is taken for another selector: the function falls off its end
extract_date_from_string(filename, fmt) ==
    IF fmt = "default" THEN extract_date_default(filename)
    ELSE IF fmt = "hyphen" THEN extract_date_hyphen(filename)
    ELSE IF fmt = "underscore" THEN extract_date_underscore(filename)
    ELSE ReturnNone

(* databento.py *)

extract_date_from_filename(filename) ==
    LET match == re_search(DefaultPattern, filename)
    IN  IF match # 0
        THEN strptime_date(group(DefaultPattern, filename, match), DefaultFormat)
        ELSE ReturnNone

----------------------------------------------------------------------------
(* Inputs of the extraction calls: keys made of at most MaxParts atoms. *)

KeyAtoms ==
    { <<"x">>, <<"1">>, <<"_">>,
      <<"2", "0", "2", "3", "0", "1", "0", "1">>,
      <<"2", "0", "2", "3", "0", "1", "0", "5">>,
      <<"9", "9", "9", "9", "9", "9", "9", "9">>,
      <<"2", "0", "2", "3", "1", "3", "0", "1">>,
      <<"2", "0", "2", "3", "0", "2", "2", "9">>,
      <<"2", "0", "2", "4", "0", "2", "2", "9">>,
      <<"2", "0", "2", "3", "-", "0", "1", "-", "0", "5">>,
      <<"2", "0", "2", "3", "-", "1", "3", "-", "0", "5">>,
      <<"2", "0", "2", "3", "_", "0", "1", "_", "0", "5">>,
      <<"2", "0", "2", "3", "_", "0", "1", "_", "3", "2">> }

RECURSIVE KeysOf(_)
KeysOf(n) ==
    IF n = 0 THEN {<<>>}
    ELSE LET shorter == KeysOf(n - 1)
         IN  shorter \cup {k \o a : k \in shorter, a \in KeyAtoms}

Keys == KeysOf(MaxParts)

Formats == {"default", "hyphen", "underscore"}

Selectors == Formats \cup {"iso"}

----------------------------------------------------------------------------
(* Inputs of the pipeline: the bucket, the folder and the date range. *)

BucketKeys ==
    { <<"f", "/", "2", "0", "2", "3", "0", "1", "0", "1">>,
      <<"f", "/", "2", "0", "2", "3", "0", "1", "0", "5">>,
      <<"f", "/", "2", "0", "2", "3", "0", "1", "1", "0">>,
      <<"f", "/", "x">>,
      <<"f", "/", "9", "9", "9", "9", "9", "9", "9", "9">>,
      <<"f", "/", "2", "0", "2", "3", "0", "1", "0", "5", "/">>,
      <<"g", "/", "2", "0", "2", "3", "0", "1", "0", "5">>,
      <<"f", "/">> }

Folders == { <<"f", "/">>, <<"g", "/">> }

DateRanges ==
    { << <<2023, 1, 2>>, <<2023, 1, 8>> >>,
      << <<2023, 1, 1>>, <<2023, 1, 10>> >>,
      << <<2023, 1, 5>>, <<2023, 1, 5>> >>,
      << <<2023, 1, 6>>, <<2023, 1, 9>> >> }

Range(s) == {s[i] : i \in 1..Len(s)}

RECURSIVE Listings(_)
\* the listings of a bucket of at most n objects: no key occurs twice
Listings(n) ==
    IF n = 0 THEN {<<>>}
    ELSE LET shorter == Listings(n - 1)
         IN  shorter \cup
             UNION {{l \o <<k>> : k \in BucketKeys \ Range(l)} : l \in shorter}

Buckets == Listings(MaxFiles)

----------------------------------------------------------------------------
(* databento.py: the pipeline *)

startswith(s, prefix) ==
    /\ Len(prefix) <= Len(s)
    /\ SubSeq(s, 1, Len(prefix)) = prefix

endswith(s, suffix) ==
    /\ Len(suffix) <= Len(s)
    /\ SubSeq(s, Len(s) - Len(suffix) + 1, Len(s)) = suffix

Delimiter == <<"/">>

\* objects.filter(Prefix=path, Delimiter="/") lists a key under the prefix
\* as an object unless a delimiter follows the prefix in it
ListedUnder(k, path) ==
    /\ startswith(k, path)
    /\ \A i \in (Len(path) + 1)..Len(k) : k[i] # Delimiter[1]

RECURSIVE get_files_in_s3_path(_, _)
\* aws.py: the listed objects whose key does not end in "/"
get_files_in_s3_path(path, bucket) ==
    IF bucket = <<>> THEN <<>>
    ELSE (IF /\ ListedUnder(Head(bucket), path)
             /\ ~endswith(Head(bucket), Delimiter)
          THEN <<Head(bucket)>> ELSE <<>>)
         \o get_files_in_s3_path(path, Tail(bucket))

RECURSIVE get_files_in_s3_folder(_, _)
\* databento.py: every key of the bucket that starts with the folder name
get_files_in_s3_folder(foldername, bucket) ==
    IF bucket = <<>> THEN <<>>
    ELSE (IF startswith(Head(bucket), foldername)
          THEN <<Head(bucket)>> ELSE <<>>)
         \o get_files_in_s3_folder(foldername, Tail(bucket))

DateLE(a, b) ==
    \/ a[1] < b[1]
    \/ a[1] = b[1] /\ a[2] < b[2]
    \/ a[1] = b[1] /\ a[2] = b[2] /\ a[3] <= b[3]

RECURSIVE select_keep_undated(_, _, _, _)
\* a key without a date is kept
select_keep_undated(files, start, end, acc) ==
    IF files = <<>> THEN [files |-> acc, exc |-> ""]
    ELSE LET name == Head(files)
             file_date == extract_date_from_filename(name)
         IN  IF file_date.kind = "raise"
             THEN [files |-> acc, exc |-> file_date.exc]
             ELSE IF \/ file_date.kind = "none"
                     \/ /\ DateLE(start, file_date.val)
                        /\ DateLE(file_date.val, end)
             THEN select_keep_undated(Tail(files), start, end,
                                      Append(acc, name))
             ELSE select_keep_undated(Tail(files), start, end, acc)

RECURSIVE select(_, _, _, _)
\* the filter loop; an exception of the extraction ends it
select(files, start, end, acc) ==
    IF files = <<>> THEN [files |-> acc, exc |-> ""]
    ELSE LET name == Head(files)
             file_date == extract_date_from_filename(name)
         IN  IF file_date.kind = "raise"
             THEN [files |-> acc, exc |-> file_date.exc]
             ELSE IF /\ file_date.kind # "none"
                     /\ DateLE(start, file_date.val)
                     /\ DateLE(file_date.val, end)
             THEN select(Tail(files), start, end, Append(acc, name))
             ELSE select(Tail(files), start, end, acc)

RECURSIVE pd_concat_reversed(_)
\* the tables joined last first
pd_concat_reversed(dfs) ==
    IF dfs = <<>> THEN <<>> ELSE pd_concat_reversed(Tail(dfs)) \o Head(dfs)

RECURSIVE pd_concat(_)
\* pd.concat(dfs, ignore_index=True): the rows of the tables, in order
pd_concat(dfs) ==
    IF dfs = <<>> THEN <<>> ELSE Head(dfs) \o pd_concat(Tail(dfs))

\* the table of n rows decoded from the bytes of an object
Table(bytes, n) == [j \in 1..n |-> [src |-> bytes, row |-> j]]

NoFields == <<>>

NoError == [type |-> "", fields |-> NoFields]

NoBody == <<>>

Call(op, k, res) == [op |-> op, key |-> k, result |-> res]

----------------------------------------------------------------------------
(* The state machine. *)

InitExtract ==
    /\ pc = "call"
    /\ key \in Keys
    /\ format \in Selectors
    /\ file_list = <<>> /\ folder = <<>>
    /\ sd = NoDate /\ ed = NoDate

InitPipeline ==
    /\ pc = "list"
    /\ key = <<>> /\ format = "default"
    /\ file_list \in Buckets
    /\ folder \in Folders
    /\ \E r \in DateRanges : sd = r[1] /\ ed = r[2]

Init ==
    /\ InitExtract \/ InitPipeline
    /\ outcome = NotCalled
    /\ files_in_folder = <<>>
    /\ files_to_read = <<>>
    /\ body = NoBody
    /\ dfs_to_concat = <<>>
    /\ combined_df = <<>>
    /\ err = NoError
    /\ calls = <<>>

pipelineVars == <<files_in_folder, files_to_read, body, dfs_to_concat,
                  combined_df, err, calls>>

\* util.extract_date_from_string(key, format)
CallExtractFromString ==
    /\ pc = "call"
    /\ outcome' = extract_date_from_string(key, format)
    /\ pc' = "returned_string"
    /\ UNCHANGED <<key, format, inputVars, pipelineVars>>

\* databento.extract_date_from_filename(key): it takes no format
CallExtractFromFilename ==
    /\ pc = "call"
    /\ format = "default"
    /\ outcome' = extract_date_from_filename(key)
    /\ pc' = "returned_filename"
    /\ UNCHANGED <<key, format, inputVars, pipelineVars>>

\* read_databento_from_s3, the listing
ListFiles ==
    /\ pc = "list"
    /\ files_in_folder' = get_files_in_s3_folder(folder, file_list)
    /\ calls' = Append(calls, Call("list", folder, "ok"))
    /\ pc' = "filter"
    /\ UNCHANGED <<extractVars, inputVars, files_to_read, body,
                   dfs_to_concat, combined_df, err>>

\* read_databento_from_s3, the filter loop and the test of its result
FilterByRange ==
    /\ pc = "filter"
    /\ LET r == select(files_in_folder, sd, ed, <<>>)
       IN  /\ files_to_read' = r.files
           /\ IF r.exc # ""
              THEN /\ err' = [type |-> r.exc, fields |-> NoFields]
                   /\ pc' = "failed"
              ELSE IF r.files = <<>>
              THEN /\ err' = [type |-> "FileNotFoundError",
                              fields |-> [sd |-> sd, ed |-> ed]]
                   /\ pc' = "failed"
              ELSE /\ err' = err
                   /\ pc' = "fetch"
    /\ UNCHANGED <<extractVars, inputVars, files_in_folder, body,
                   dfs_to_concat, combined_df, calls>>

\* the read loop walks the selection from its end
filename_from_end == files_to_read[Len(files_to_read) - Len(dfs_to_concat)]

\* the key of the current iteration of the read loop
filename == files_to_read[Len(dfs_to_concat) + 1]

\* get_df_from_s3: read_s3_bucket_file returns the bytes of the object
FetchOk ==
    /\ pc = "fetch"
    /\ body' = filename
    /\ calls' = Append(calls, Call("fetch", filename, "ok"))
    /\ pc' = "decode"
    /\ UNCHANGED <<extractVars, inputVars, files_in_folder, files_to_read,
                   dfs_to_concat, combined_df, err>>

\* the error of the fetch is caught and the key is fetched again
FetchFail_retry ==
    /\ pc = "fetch"
    /\ calls' = Append(calls, Call("fetch", filename, "ClientError"))
    /\ pc' = "fetch"
    /\ Len(calls) < 2 * MaxFiles + 2
    /\ UNCHANGED <<extractVars, inputVars, files_in_folder, files_to_read,
                   body, dfs_to_concat, combined_df, err>>

\* get_df_from_s3: read_s3_bucket_file raises, nothing catches it
FetchFail ==
    /\ pc = "fetch"
    /\ calls' = Append(calls, Call("fetch", filename, "ClientError"))
    /\ err' = [type |-> "ClientError", fields |-> [key |-> filename]]
    /\ pc' = "failed"
    /\ UNCHANGED <<extractVars, inputVars, files_in_folder, files_to_read,
                   body, dfs_to_concat, combined_df>>

\* get_df_from_s3: DBNStore.from_bytes(body).to_df() returns a table
DecodeOk ==
    /\ pc = "decode"
    /\ \E n \in 0..MaxRows :
          dfs_to_concat' = Append(dfs_to_concat, Table(body, n))
    /\ calls' = Append(calls, Call("decode", body, "ok"))
    /\ body' = NoBody
    /\ pc' = IF Len(dfs_to_concat') = Len(files_to_read)
             THEN "concat" ELSE "fetch"
    /\ UNCHANGED <<extractVars, inputVars, files_in_folder, files_to_read,
                   combined_df, err>>

\* get_df_from_s3: the decoder raises, nothing catches it
DecodeFail ==
    /\ pc = "decode"
    /\ calls' = Append(calls, Call("decode", body, "BentoError"))
    /\ err' = [type |-> "BentoError", fields |-> [key |-> body]]
    /\ pc' = "failed"
    /\ UNCHANGED <<extractVars, inputVars, files_in_folder, files_to_read,
                   body, dfs_to_concat, combined_df>>

\* read_databento_from_s3, the concatenation and the return
Concat ==
    /\ pc = "concat"
    /\ combined_df' = pd_concat(dfs_to_concat)
    /\ pc' = "done"
    /\ UNCHANGED <<extractVars, inputVars, files_in_folder, files_to_read,
                   body, dfs_to_concat, err, calls>>

Next ==
    \/ CallExtractFromString
    \/ CallExtractFromFilename
    \/ ListFiles
    \/ FilterByRange
    \/ FetchOk
    \/ FetchFail
    \/ DecodeOk
    \/ DecodeFail
    \/ Concat

Spec == Init /\ [][Next]_vars

----------------------------------------------------------------------------
(* Vocabulary of the properties: tokens and calendar dates, stated on the  *)
(* characters of a key.                                                    *)

Returned == pc \in {"returned_string", "returned_filename"}

Sep(f) ==
    CASE f = "default" -> <<>>
      [] f = "hyphen" -> <<"-">>
      [] f = "underscore" -> <<"_">>

TokenLen(f) == 8 + 2 * Len(Sep(f))

AllDigits(t) == \A i \in 1..Len(t) : t[i] \in Digits

\* t is YYYY sep MM sep DD
IsToken(t, f) ==
    LET w == Len(Sep(f))
    IN  /\ Len(t) = TokenLen(f)
        /\ AllDigits(SubSeq(t, 1, 4))
        /\ SubSeq(t, 5, 4 + w) = Sep(f)
        /\ AllDigits(SubSeq(t, 5 + w, 6 + w))
        /\ SubSeq(t, 7 + w, 6 + 2 * w) = Sep(f)
        /\ AllDigits(SubSeq(t, 7 + 2 * w, 8 + 2 * w))

TokenAt(k, f, i) == SubSeq(k, i, i + TokenLen(f) - 1)

\* the positions of k where a token of format f starts
TokenStarts(k, f) ==
    {i \in 1..(Len(k) - TokenLen(f) + 1) : IsToken(TokenAt(k, f, i), f)}

TwoDigits(a, b) == 10 * DigitVal(a) + DigitVal(b)

TokenYMD(t, f) ==
    LET w == Len(Sep(f))
    IN  << 100 * TwoDigits(t[1], t[2]) + TwoDigits(t[3], t[4]),
           TwoDigits(t[5 + w], t[6 + w]),
           TwoDigits(t[7 + 2 * w], t[8 + 2 * w]) >>

MonthLengths == <<31, 28, 31, 30, 31, 30, 31, 31, 30, 31, 30, 31>>

IsCalendarDate(ymd) ==
    /\ ymd[1] \in 1..9999
    /\ ymd[2] \in 1..12
    /\ ymd[3] >= 1
    /\ \/ ymd[3] <= MonthLengths[ymd[2]]
       \/ /\ ymd[2] = 2 /\ ymd[3] = 29
          /\ ymd[1] % 4 = 0
          /\ (ymd[1] % 100 # 0 \/ ymd[1] % 400 = 0)

ValidTokenAt(k, f, i) == IsCalendarDate(TokenYMD(TokenAt(k, f, i), f))

FirstToken(k, f) == MinOf(TokenStarts(k, f))

----------------------------------------------------------------------------
(* Properties of the extraction. *)

\* C1: a key whose matching substrings all denote no calendar date gives
\* absence, as a key without a match does; the call does not raise.
C1_InvalidTokenGivesAbsence ==
    (/\ Returned
     /\ format \in Formats
     /\ TokenStarts(key, format) # {}
     /\ \A i \in TokenStarts(key, format) : ~ValidTokenAt(key, format, i))
    => outcome = ReturnNone

\* C4: a selector outside {default, hyphen, underscore} fails with
\* UnknownFormat; the call yields no extraction result, absence included.
C4_UnknownSelectorFails ==
    (pc = "returned_string" /\ format \notin Formats)
    => outcome = Raise("UnknownFormat")

\* C7, as stated: whatever valid date token the key contains, anywhere in
\* it, the call returns the date of that token.
C7_AnyValidTokenIsReturned ==
    (Returned /\ format \in Formats)
    => \A i \in TokenStarts(key, format) :
          ValidTokenAt(key, format, i)
          => outcome = ReturnDate(TokenYMD(TokenAt(key, format, i), format))

\* C7, amended: when the leftmost substring that matches the pattern is a
\* valid date token, the call returns the date of that token.
C7_LeftmostValidTokenIsReturned ==
    (/\ Returned
     /\ format \in Formats
     /\ TokenStarts(key, format) # {}
     /\ ValidTokenAt(key, format, FirstToken(key, format)))
    => outcome = ReturnDate(TokenYMD(TokenAt(key, format,
                                             FirstToken(key, format)), format))

\* a valid leftmost token after a digit or a letter, another match after it
C7_Witness ==
    /\ Returned
    /\ format \in Formats
    /\ Cardinality(TokenStarts(key, format)) >= 2
    /\ FirstToken(key, format) > 1
    /\ ValidTokenAt(key, format, FirstToken(key, format))
    /\ \E i \in TokenStarts(key, format) :
          /\ i >= FirstToken(key, format) + TokenLen(format)
          /\ ValidTokenAt(key, format, i)
          /\ TokenYMD(TokenAt(key, format, i), format)
               # TokenYMD(TokenAt(key, format, FirstToken(key, format)), format)
    /\ outcome.kind = "date"

\* what the call gives on the key cut off after its leftmost match
OutcomeOfFirstMatchAlone ==
    LET cut == SubSeq(key, 1, FirstToken(key, format) + TokenLen(format) - 1)
    IN  IF pc = "returned_string" THEN extract_date_from_string(cut, format)
        ELSE extract_date_from_filename(cut)

\* C8: with several matches in the key the result is the one the leftmost
\* match determines: a date returned is the date of the leftmost match, and
\* what follows the leftmost match does not change the result.
C8_LeftmostMatchDecides ==
    (/\ Returned
     /\ format \in Formats
     /\ Cardinality(TokenStarts(key, format)) >= 2)
    => /\ outcome.kind # "none"
       /\ outcome.kind = "date"
          => outcome.val = TokenYMD(TokenAt(key, format,
                                            FirstToken(key, format)), format)
       /\ outcome = OutcomeOfFirstMatchAlone

\* several matches, the later ones denote other dates than the leftmost
C8_Witness ==
    /\ Returned
    /\ format \in Formats
    /\ Cardinality(TokenStarts(key, format)) >= 2
    /\ outcome.kind = "date"
    /\ \E i \in TokenStarts(key, format) :
          /\ i >= FirstToken(key, format) + TokenLen(format)
          /\ ValidTokenAt(key, format, i)
          /\ TokenYMD(TokenAt(key, format, i), format) # outcome.val

----------------------------------------------------------------------------
(* Properties of the pipeline. *)

\* the filter loop of the run is over
Filtered == pc \in {"fetch", "decode", "concat", "done", "failed"}

Ended == pc \in {"done", "failed"}

DateNum(d) == 10000 * d[1] + 100 * d[2] + d[3]

\* the date a key carries: the date of its leftmost YYYYMMDD token when
\* that token is a calendar date, else none
DateOfKey(k) ==
    IF TokenStarts(k, "default") = {} THEN NoDate
    ELSE IF ValidTokenAt(k, "default", FirstToken(k, "default"))
    THEN TokenYMD(TokenAt(k, "default", FirstToken(k, "default")), "default")
    ELSE NoDate

InDateRange(k) ==
    /\ DateOfKey(k) # NoDate
    /\ DateNum(sd) <= DateNum(DateOfKey(k))
    /\ DateNum(DateOfKey(k)) <= DateNum(ed)

RECURSIVE KeysInRange(_)
\* the subsequence of the keys whose date is present and in [sd, ed]
KeysInRange(ks) ==
    IF ks = <<>> THEN <<>>
    ELSE (IF InDateRange(Head(ks)) THEN <<Head(ks)>> ELSE <<>>)
         \o KeysInRange(Tail(ks))

\* C2: for every listing and every range the filter returns the keys of
\* the listing whose date is present and in [sd, ed], in listing order.
C2_SelectIsTheSubsequenceInRange ==
    Filtered => /\ err.type # "ValueError"
                /\ files_to_read = KeysInRange(files_in_folder)

\* C3: a run whose selection is empty ends in the failure "no files in
\* range", and the error carries the folder and both ends of the range.
C3_EmptySelectionFailsWithPrefixAndRange ==
    (Ended /\ KeysInRange(files_in_folder) = <<>>)
    => /\ pc = "failed"
       /\ err.type = "FileNotFoundError"
       /\ "sd" \in DOMAIN err.fields /\ err.fields.sd = sd
       /\ "ed" \in DOMAIN err.fields /\ err.fields.ed = ed
       /\ "folder" \in DOMAIN err.fields /\ err.fields.folder = folder

FailedCalls == {i \in 1..Len(calls) : calls[i].result # "ok"}

CallsOf(op) == {i \in 1..Len(calls) : calls[i].op = op}

\* C5: a failed fetch or decode is the last call of the run, the run has
\* ended with that error, keys after the failing one were not fetched, no
\* key was fetched twice, and a run that returns a dataset fetched and
\* decoded every selected key.
C5_FailFastAllOrNothing ==
    /\ \A i \in FailedCalls :
          /\ i = Len(calls)
          /\ pc = "failed"
          /\ err.type = calls[i].result
          /\ err.fields = [key |-> calls[i].key]
          /\ calls[i].key = files_to_read[Len(dfs_to_concat) + 1]
          /\ combined_df = <<>>
    /\ \A i, j \in CallsOf("fetch") : calls[i].key = calls[j].key => i = j
    /\ Cardinality(CallsOf("fetch")) <= Len(dfs_to_concat) + 1
    /\ pc = "done"
       => /\ FailedCalls = {}
          /\ Len(dfs_to_concat) = Len(files_to_read)
          /\ \A n \in 1..Len(files_to_read) :
                /\ \E i \in CallsOf("fetch") : calls[i].key = files_to_read[n]
                /\ \E i \in CallsOf("decode") : calls[i].key = files_to_read[n]

\* a decode fails after a key was read and before the last key
C5_Witness ==
    /\ pc = "failed"
    /\ err.type = "BentoError"
    /\ Len(dfs_to_concat) >= 1
    /\ Len(files_to_read) > Len(dfs_to_concat) + 1

RECURSIVE SumLen(_)
SumLen(dfs) == IF dfs = <<>> THEN 0 ELSE Len(Head(dfs)) + SumLen(Tail(dfs))

\* the rows before the block of table i in the combined dataset
Offset(i) == SumLen(SubSeq(dfs_to_concat, 1, i - 1))

\* C6: the dataset a run returns has as many rows as the decoded tables
\* together, and the rows of the table of the i-th selected key, in their
\* order, follow the rows of the tables of the keys before it.
C6_CombinedIsConcatenation ==
    pc = "done"
    => /\ Len(dfs_to_concat) = Len(files_to_read)
       /\ Len(combined_df) = SumLen(dfs_to_concat)
       /\ \A i \in 1..Len(dfs_to_concat) :
             \A j \in 1..Len(dfs_to_concat[i]) :
                /\ combined_df[Offset(i) + j] = dfs_to_concat[i][j]
                /\ combined_df[Offset(i) + j].src = files_to_read[i]
                /\ combined_df[Offset(i) + j].row = j

\* two tables or more, of different sizes, none empty
C6_Witness ==
    /\ pc = "done"
    /\ Len(dfs_to_concat) >= 2
    /\ Len(dfs_to_concat[1]) >= 1
    /\ Len(dfs_to_concat[2]) >= 1
    /\ Len(dfs_to_concat[1]) # Len(dfs_to_concat[2])

\* C9: a key without a substring that matches the pattern of the format
\* gives absence, in each of the three formats, and the filter selects no
\* such key, whatever the range.
C9_NoTokenIsAbsentAndExcluded ==
    /\ (Returned /\ format \in Formats /\ TokenStarts(key, format) = {})
       => outcome = ReturnNone
    /\ \A i \in 1..Len(files_to_read) :
          TokenStarts(files_to_read[i], "default") # {}

\* the filter has dropped a listed key without a token and kept another key
C9_Witness ==
    /\ pc = "fetch"
    /\ \E i \in 1..Len(files_in_folder) :
          /\ TokenStarts(files_in_folder[i], "default") = {}
          /\ files_in_folder[i] \notin Range(files_to_read)

IsDirectoryMarker(k) == k # <<>> /\ k[Len(k)] = "/"

\* C10: the listing the run obtains holds no key that ends in "/", and no
\* such key is fetched.
C10_NoDirectoryMarkerListed ==
    /\ \A i \in 1..Len(files_in_folder) :
          ~IsDirectoryMarker(files_in_folder[i])
    /\ \A i \in CallsOf("fetch") : ~IsDirectoryMarker(calls[i].key)

\* C11: the calls of a run come one after the other: the listing first and
\* once, then for the selected keys in selection order the fetch of a key
\* and the decode of that key, a call starting only after the call before
\* it has returned; a run that returns has fetched and decoded each
\* selected key exactly once; with an empty selection nothing is fetched
\* or decoded.
C11_CallsStrictlySequential ==
    /\ \A p \in 1..Len(calls) :
          IF p = 1 THEN calls[p].op = "list"
          ELSE /\ calls[p - 1].result = "ok"
               /\ p \div 2 <= Len(files_to_read)
               /\ calls[p].key = files_to_read[p \div 2]
               /\ calls[p].op = (IF p % 2 = 0 THEN "fetch" ELSE "decode")
    /\ pc = "fetch" => body = NoBody /\ Len(calls) % 2 = 1
    /\ pc = "decode" => body = calls[Len(calls)].key /\ Len(calls) % 2 = 0
    /\ pc = "done" => Len(calls) = 1 + 2 * Len(files_to_read)
    /\ (files_to_read = <<>> \/ KeysInRange(files_in_folder) = <<>>)
       => Len(calls) <= 1

\* a run that returned after reading two keys or more
C11_Witness ==
    /\ pc = "done"
    /\ Len(files_to_read) >= 2
    /\ Len(calls) >= 5

====
